---- MODULE Spec2Model ----
(***************************************************************************)
(* Channel context store, pending-message queue, persistence and the       *)
(* pending-summarization cycle of the discord-gpt bot                      *)
(* (config/gemini.ts and index.ts).                                        *)
(*                                                                         *)
(* Text is a sequence of one-character strings, so that the regular        *)
(* expressions of sanitizeInput and the word splitting of the topic        *)
(* extraction are computed character by character, as the code does.       *)
(***************************************************************************)
EXTENDS Integers, Sequences, FiniteSets, TLC

VARIABLES
    now,              \* the wall clock, in milliseconds (Date.now())
    channelContexts,  \* the Map channelId -> ChannelContext (gemini.ts:26)
    contextFile,      \* the parsed content of storage/channelContexts.json
    saves,            \* the saveChannelContextsToFile calls in flight
    pendingFile,      \* the parsed content of storage/pendingMessages.json
    enqueues,         \* the addPendingMessage calls in flight
    cycles,           \* the runs of the 5-minute summarization callback
    requests,         \* the generateContent requests issued so far
    sent,             \* the messages sent to channels (reply / send)
    lastId,           \* the id of the last message the gateway delivered
    acked,            \* the entries whose addPendingMessage call has resolved
    lastOp,           \* the operation that produced the current state, when it
                      \* is one the properties speak of ("step" otherwise)
    arg,              \* the text that sanitizeInput is applied to
    ret,              \* its result
    proc              \* the process: running or exited, with the saves that
                      \* its signal handlers are waiting for

vars == <<now, channelContexts, contextFile, saves, pendingFile, enqueues,
          cycles, requests, sent, lastId, acked, lastOp, arg, ret, proc>>

storeVars   == <<channelContexts, contextFile, saves>>
pendingVars == <<pendingFile, enqueues, acked>>
cycleVars   == <<cycles, requests, sent>>
pureVars    == <<arg, ret>>

(***************************************************************************)
(* Characters and strings                                                  *)
(***************************************************************************)
UpperSeq == <<"A","B","C","D","E","F","G","H","I","J","K","L","M",
              "N","O","P","Q","R","S","T","U","V","W","X","Y","Z">>
LowerSeq == <<"a","b","c","d","e","f","g","h","i","j","k","l","m",
              "n","o","p","q","r","s","t","u","v","w","x","y","z">>
Digits   == {"0","1","2","3","4","5","6","7","8","9"}

\* String.prototype.toLowerCase on one character
ToLower == [i \in 1..Len(UpperSeq) |-> LowerSeq[i]]
UpperIndex ==
    [c \in {UpperSeq[i] : i \in 1..Len(UpperSeq)} |->
        CHOOSE i \in 1..Len(UpperSeq) : UpperSeq[i] = c]
LowerChar(c) == IF c \in DOMAIN UpperIndex THEN ToLower[UpperIndex[c]] ELSE c

toLowerCase(s) == [i \in 1..Len(s) |-> LowerChar(s[i])]

\* the regular expression classes \w and \s
WordChars ==
    {LowerSeq[i] : i \in 1..Len(LowerSeq)} \cup {UpperSeq[i] : i \in 1..Len(UpperSeq)}
        \cup Digits \cup {"_"}
IsWordChar(c) == c \in WordChars
IsSpace(c) == c \in {" ", "\t", "\n"}

\* \b at the position between s[i-1] and s[i]
WordBoundary(s, i) ==
    LET before == i > 1 /\ i - 1 <= Len(s) /\ IsWordChar(s[i - 1])
        after  == i >= 1 /\ i <= Len(s) /\ IsWordChar(s[i])
    IN  before # after

\* the literal lit (lower case) matches s at i under the i flag
LitAt(s, i, lit) ==
    /\ i + Len(lit) - 1 <= Len(s)
    /\ \A k \in 1..Len(lit) : LowerChar(s[i + k - 1]) = lit[k]

\* the index after the longest run of \s starting at i
RECURSIVE SkipSpace(_, _)
SkipSpace(s, i) ==
    IF i <= Len(s) /\ IsSpace(s[i]) THEN SkipSpace(s, i + 1) ELSE i

startsWith(s, prefix) ==
    /\ Len(prefix) <= Len(s)
    /\ \A k \in 1..Len(prefix) : s[k] = prefix[k]

(***************************************************************************)
(* sanitizeInput (gemini.ts:183-193): five global, case-insensitive        *)
(* replacements, applied one after the other.                              *)
(*                                                                         *)
(* A pattern is [lb, tb, alts]: lb / tb say whether it starts / ends with  *)
(* \b, alts are its alternatives in the order the regex tries them. An     *)
(* alternative is [lit, ws, tails]: the literal lit, then no white space   *)
(* ("none"), \s* ("star") or \s+ ("plus"), then one of tails (none when    *)
(* tails is empty).                                                        *)
(***************************************************************************)
Lit(l) == [lit |-> l, ws |-> "none", tails |-> <<>>]

sYou == <<"y","o","u"," ">>
sChangeYour == <<"c","h","a","n","g","e"," ","y","o","u","r"," ">>
sCheerful == <<"c","h","e","e","r","f","u","l">>
sFriendly == <<"f","r","i","e","n","d","l","y">>
sPositive == <<"p","o","s","i","t","i","v","e">>
sTraits == <<sCheerful, sFriendly, sPositive>>

\* /you (are|be|act|become|pretend|roleplay)/gi
Pattern1 ==
    [lb |-> FALSE, tb |-> FALSE,
     alts |-> << Lit(sYou \o <<"a","r","e">>),
                 Lit(sYou \o <<"b","e">>),
                 Lit(sYou \o <<"a","c","t">>),
                 Lit(sYou \o <<"b","e","c","o","m","e">>),
                 Lit(sYou \o <<"p","r","e","t","e","n","d">>),
                 Lit(sYou \o <<"r","o","l","e","p","l","a","y">>) >>]

\* /system:\s*|<system>|<prompt>|<personality>/gi
Pattern2 ==
    [lb |-> FALSE, tb |-> FALSE,
     alts |-> << [lit |-> <<"s","y","s","t","e","m",":">>, ws |-> "star",
                  tails |-> <<>>],
                 Lit(<<"<","s","y","s","t","e","m",">">>),
                 Lit(<<"<","p","r","o","m","p","t",">">>),
                 Lit(<<"<","p","e","r","s","o","n","a","l","i","t","y",">">>) >>]

\* /\b(act as|pretend to be|roleplay as)\b/gi
Pattern3 ==
    [lb |-> TRUE, tb |-> TRUE,
     alts |-> << Lit(<<"a","c","t"," ","a","s">>),
                 Lit(<<"p","r","e","t","e","n","d"," ","t","o"," ","b","e">>),
                 Lit(<<"r","o","l","e","p","l","a","y"," ","a","s">>) >>]

\* /change your (personality|behavior|attitude)/gi
Pattern4 ==
    [lb |-> FALSE, tb |-> FALSE,
     alts |-> << Lit(sChangeYour \o <<"p","e","r","s","o","n","a","l","i","t","y">>),
                 Lit(sChangeYour \o <<"b","e","h","a","v","i","o","r">>),
                 Lit(sChangeYour \o <<"a","t","t","i","t","u","d","e">>) >>]

\* /\b(stop being|don't be)\s+(cheerful|friendly|positive)/gi
Pattern5 ==
    [lb |-> TRUE, tb |-> FALSE,
     alts |-> << [lit |-> <<"s","t","o","p"," ","b","e","i","n","g">>,
                  ws |-> "plus", tails |-> sTraits],
                 [lit |-> <<"d","o","n","'","t"," ","b","e">>,
                  ws |-> "plus", tails |-> sTraits] >>]

Patterns == <<Pattern1, Pattern2, Pattern3, Pattern4, Pattern5>>

RequestRemoved == <<"[","r","e","q","u","e","s","t"," ","r","e","m","o","v","e","d","]">>
Removed == <<"[","r","e","m","o","v","e","d","]">>

\* the index after the match of one alternative at i, 0 when it does not match
MatchAlt(s, i, alt) ==
    IF ~LitAt(s, i, alt.lit) THEN 0
    ELSE LET j == i + Len(alt.lit)
             k == SkipSpace(s, j)
         IN  IF alt.ws = "none" THEN j
             ELSE IF alt.ws = "plus" /\ k = j THEN 0
             ELSE IF alt.tails = <<>> THEN k
             ELSE IF \E t \in 1..Len(alt.tails) : LitAt(s, k, alt.tails[t])
             THEN k + Len(alt.tails[CHOOSE t \in 1..Len(alt.tails) :
                                        LitAt(s, k, alt.tails[t])])
             ELSE 0

\* the index after the match of the pattern at i: the first alternative, from
\* a on, that matches with its trailing boundary; 0 when there is none
RECURSIVE FirstAlt(_, _, _, _)
FirstAlt(s, i, pat, a) ==
    IF a > Len(pat.alts) THEN 0
    ELSE LET e == MatchAlt(s, i, pat.alts[a])
         IN  IF e # 0 /\ (pat.tb => WordBoundary(s, e)) THEN e
             ELSE FirstAlt(s, i, pat, a + 1)

MatchAt(s, i, pat) ==
    IF pat.lb /\ ~WordBoundary(s, i) THEN 0 ELSE FirstAlt(s, i, pat, 1)

\* s.replace(pat, repl) with the g flag: the matches are found on the
\* original string, left to right, without overlap
RECURSIVE ReplaceFrom(_, _, _, _)
ReplaceFrom(s, i, pat, repl) ==
    IF i > Len(s) THEN <<>>
    ELSE LET e == MatchAt(s, i, pat)
         IN  IF e # 0 THEN repl \o ReplaceFrom(s, e, pat, repl)
             ELSE <<s[i]>> \o ReplaceFrom(s, i + 1, pat, repl)

ReplaceAll(s, pat, repl) == ReplaceFrom(s, 1, pat, repl)

\* pat.test(s)
Matches(s, pat) == \E i \in 1..Len(s) : MatchAt(s, i, pat) # 0

sanitizeInput(content) ==
    LET s1 == ReplaceAll(content, Pattern1, RequestRemoved)
        s2 == ReplaceAll(s1, Pattern2, Removed)
        s3 == ReplaceAll(s2, Pattern3, RequestRemoved)
        s4 == ReplaceAll(s3, Pattern4, RequestRemoved)
        s5 == ReplaceAll(s4, Pattern5, RequestRemoved)
    IN  s5

(***************************************************************************)
(* The Context Store: updateChannelContext (gemini.ts:32-128)              *)
(***************************************************************************)
RecentCap == 100                      \* gemini.ts:61
Day == 24 * 60 * 60 * 1000            \* gemini.ts:105

\* A timestamp is a Date object in memory and an ISO string once it has been
\* through JSON; ms is the instant either of them denotes.
DateAt(t)   == [kind |-> "Date", ms |-> t]
StringAt(t) == [kind |-> "string", ms |-> t]

\* msg.timestamp > oneDayAgo (gemini.ts:107). Both operands go through
\* ToPrimitive and ToNumber: a Date gives its milliseconds, an ISO string
\* gives NaN, and every comparison with NaN is false.
LaterThan(ts, threshold) == ts.kind = "Date" /\ ts.ms > threshold

\* new Map()
EmptyMap == [k \in {} |-> {}]

\* gemini.ts:43-48
EmptyContext ==
    [recentMessages |-> <<>>, activeUsers |-> {}, topics |-> <<>>,
     userInteractions |-> EmptyMap]

Has(map, key) == key \in DOMAIN map
Put(map, key, value) ==
    [k \in DOMAIN map \cup {key} |-> IF k = key THEN value ELSE map[k]]

\* content.split(/\s+/)
RECURSIVE SplitFrom(_, _, _)
SplitFrom(s, i, cur) ==
    IF i > Len(s) THEN <<cur>>
    ELSE IF IsSpace(s[i]) THEN <<cur>> \o SplitFrom(s, SkipSpace(s, i), <<>>)
    ELSE SplitFrom(s, i + 1, Append(cur, s[i]))

split(s) == SplitFrom(s, 1, <<>>)

\* context.topics as the Map it is: its entries <<key, count>> in insertion order
TopicCount(topics, key) ==
    IF \E i \in 1..Len(topics) : topics[i][1] = key
    THEN topics[CHOOSE i \in 1..Len(topics) : topics[i][1] = key][2]
    ELSE 0

\* context.topics.set(topic, currentCount + 1) (gemini.ts:93-97)
TopicsSet(topics, key) ==
    IF \E i \in 1..Len(topics) : topics[i][1] = key
    THEN [i \in 1..Len(topics) |->
            IF topics[i][1] = key THEN <<key, topics[i][2] + 1>> ELSE topics[i]]
    ELSE Append(topics, <<key, 1>>)

RECURSIVE AddTopics(_, _, _)
AddTopics(topics, list, i) ==
    IF i > Len(list) THEN topics
    ELSE AddTopics(TopicsSet(topics, list[i]), list, i + 1)

\* [...hashtags, ...significantWords] (gemini.ts:85-92)
ExtractTopics(content) ==
    LET words == split(toLowerCase(content))
        hashtags == SelectSeq(words, LAMBDA w : startsWith(w, <<"#">>))
        significantWords ==
            SelectSeq(words, LAMBDA w :
                /\ Len(w) > 4
                /\ ~startsWith(w, <<"@">>)
                /\ ~startsWith(w, <<"h","t","t","p">>))
    IN  hashtags \o significantWords

\* PushRecent with pop in place of shift: the newest entry is dropped
PushRecentDropsNewest(recentMessages, entry) ==
    LET pushed == Append(recentMessages, entry)
    IN  IF Len(pushed) > RecentCap THEN SubSeq(pushed, 1, Len(pushed) - 1)
        ELSE pushed

\* gemini.ts:55-63: push, then shift when the length exceeds the cap
PushRecent(recentMessages, entry) ==
    LET pushed == Append(recentMessages, entry)
    IN  IF Len(pushed) > RecentCap THEN Tail(pushed) ELSE pushed

\* FilterRecent without the filter
FilterRecentKeepsAll(recentMessages, t) == recentMessages

\* gemini.ts:105-107: keep the entries of the last 24 hours
FilterRecent(recentMessages, t) ==
    SelectSeq(recentMessages, LAMBDA m : LaterThan(m.timestamp, t - Day))

\* ResetIfEmpty without userInteractions.clear()
ResetKeepsInteractions(ctx) ==
    IF Len(ctx.recentMessages) = 0
    THEN [ctx EXCEPT !.activeUsers = {}, !.topics = <<>>]
    ELSE ctx

\* gemini.ts:113-118
ResetIfEmpty(ctx) ==
    IF Len(ctx.recentMessages) = 0
    THEN [ctx EXCEPT !.activeUsers = {}, !.topics = <<>>,
                     !.userInteractions = EmptyMap]
    ELSE ctx

\* AddInteractions without the forEach of lines 79-81
AddInteractionsKeyOnly(userInteractions, name, mentions) ==
    LET base == IF Has(userInteractions, name) THEN userInteractions[name] ELSE {}
    IN  Put(userInteractions, name, base)

\* gemini.ts:74-82
AddInteractions(userInteractions, name, mentions) ==
    LET base == IF Has(userInteractions, name) THEN userInteractions[name] ELSE {}
    IN  Put(userInteractions, name,
            base \cup {mentions[i] : i \in 1..Len(mentions)})

\* UpdatedContext with the raw content in the entry
UpdatedContextRaw(ctx, message, tPush, tFilter) ==
    LET entry == [timestamp |-> DateAt(tPush),
                  author |-> message.displayName,
                  content |-> message.content,
                  mentions |-> message.mentions]
        c1 == [recentMessages |-> PushRecent(ctx.recentMessages, entry),
               activeUsers |-> ctx.activeUsers \cup {message.displayName},
               topics |-> AddTopics(ctx.topics, ExtractTopics(message.content), 1),
               userInteractions |->
                   AddInteractions(ctx.userInteractions, message.displayName,
                                   message.mentions)]
        c2 == [c1 EXCEPT !.recentMessages = FilterRecent(c1.recentMessages, tFilter)]
    IN  ResetIfEmpty(c2)

\* The context of message.channel.id after updateChannelContext(message),
\* where tPush is the clock read by new Date() (line 56) and tFilter the one
\* read by Date.now() (line 105).
UpdatedContext(ctx, message, tPush, tFilter) ==
    LET entry == [timestamp |-> DateAt(tPush),
                  author |-> message.displayName,
                  content |-> sanitizeInput(message.content),
                  mentions |-> message.mentions]
        c1 == [recentMessages |-> PushRecent(ctx.recentMessages, entry),
               activeUsers |-> ctx.activeUsers \cup {message.displayName},
               topics |-> AddTopics(ctx.topics, ExtractTopics(message.content), 1),
               userInteractions |->
                   AddInteractions(ctx.userInteractions, message.displayName,
                                   message.mentions)]
        c2 == [c1 EXCEPT !.recentMessages = FilterRecent(c1.recentMessages, tFilter)]
    IN  ResetIfEmpty(c2)

\* Skipped without the test of the channel id
SkippedWithoutGuild(message) == ~message.guild

\* gemini.ts:33: the message is skipped without a guild or a channel id
Skipped(message) == ~message.guild \/ message.channelId = ""

\* updateChannelContext with a store that keeps the updated channel only
updateChannelContextAlone(contexts, message, tPush, tFilter) ==
    IF Skipped(message) THEN contexts
    ELSE LET id == message.channelId
             ctx == IF Has(contexts, id) THEN contexts[id] ELSE EmptyContext
         IN  [k \in {id} |-> UpdatedContext(ctx, message, tPush, tFilter)]

\* channelContexts after updateChannelContext(message) (gemini.ts:32-118)
updateChannelContext(contexts, message, tPush, tFilter) ==
    IF Skipped(message) THEN contexts
    ELSE LET id == message.channelId
             ctx == IF Has(contexts, id) THEN contexts[id] ELSE EmptyContext
         IN  Put(contexts, id, UpdatedContext(ctx, message, tPush, tFilter))

(***************************************************************************)
(* The context artifact: JSON.stringify / JSON.parse of the store          *)
(* (gemini.ts:412-452).                                                    *)
(*                                                                         *)
(* A JSON collection value is [isArray, elems, props]: an array with its   *)
(* elements, or an object with its <<key, value>> entries.                 *)
(***************************************************************************)
JsonObject(props) == [isArray |-> FALSE, elems |-> <<>>, props |-> props]
JsonArray(elems)  == [isArray |-> TRUE, elems |-> elems, props |-> <<>>]

\* JSON.stringify of a Set or of a Map: neither has own enumerable
\* properties nor a toJSON method, so each is written as {}.
StringifySet(set) == JsonObject(<<>>)
StringifyMap(map) == JsonObject(<<>>)

\* JSON.stringify of a recentMessages entry: Date.prototype.toJSON gives the
\* ISO string; a string stays a string.
StringifyEntry(m) == [m EXCEPT !.timestamp = StringAt(m.timestamp.ms)]

\* JSON.stringify of an in-memory ChannelContext
StringifyContext(ctx) ==
    [recentMessages |-> [i \in 1..Len(ctx.recentMessages) |->
                            StringifyEntry(ctx.recentMessages[i])],
     activeUsers |-> StringifySet(ctx.activeUsers),
     topics |-> StringifyMap(ctx.topics),
     userInteractions |-> StringifyMap(ctx.userInteractions)]

\* Object.entries(value)
ObjectEntries(j) ==
    IF j.isArray
    THEN [i \in 1..Len(j.elems) |-> <<ToString(i - 1), j.elems[i]>>]
    ELSE j.props

SetOfArray(j) == {j.elems[i] : i \in 1..Len(j.elems)}

\* gemini.ts:443-445: the Set and Map fields are rebuilt from the parsed value
RestoreContext(value) ==
    [recentMessages |-> value.recentMessages,
     activeUsers |-> IF value.activeUsers.isArray
                     THEN SetOfArray(value.activeUsers) ELSE {},
     topics |-> ObjectEntries(value.topics),
     userInteractions |->
        LET es == ObjectEntries(value.userInteractions)
        IN  [k \in {es[i][1] : i \in 1..Len(es)} |->
                LET v == es[CHOOSE i \in 1..Len(es) : es[i][1] = k][2]
                IN  IF v.isArray THEN SetOfArray(v) ELSE {}]]

\* An artifact that JSON.parse rejects (a file cut short by a crash during
\* writeFile), marked by the key "?".
UnparsableArtifact == [k \in {"?"} |-> StringifyContext(EmptyContext)]
Parses(file) == "?" \notin DOMAIN file

\* channelContexts after loadChannelContextsFromFile (gemini.ts:436-452):
\* when JSON.parse throws, the catch leaves the store as it is at startup
LoadedContexts(file) ==
    IF Parses(file) THEN [k \in DOMAIN file |-> RestoreContext(file[k])]
    ELSE [k \in {} |-> EmptyContext]

\* What loadChannelContextsFromFile finds: no file (readFile throws), a text
\* that JSON.parse rejects, or an array of [key, value] entries.
MissingFile == [kind |-> "missing", arr |-> <<>>]
UnparsableFile == [kind |-> "unparsable", arr |-> <<>>]
ArrayFile(arr) == [kind |-> "array", arr |-> arr]

\* Object.entries(value.topics) or Object.entries(value.userInteractions)
\* throws a TypeError when the property is missing (gemini.ts:444-445)
EntryThrows(value) ==
    "topics" \notin DOMAIN value \/ "userInteractions" \notin DOMAIN value

\* the for loop of lines 441-447 from entry i on: each entry is restored and
\* set, until one throws
RECURSIVE LoadEntries(_, _, _)
LoadEntries(arr, i, contexts) ==
    IF i > Len(arr) \/ EntryThrows(arr[i][2]) THEN contexts
    ELSE LoadEntries(arr, i + 1, Put(contexts, arr[i][1], RestoreContext(arr[i][2])))

\* channelContexts after loadChannelContextsFromFile() (gemini.ts:436-452):
\* readFile and JSON.parse come before clear(), the loop after it, and the
\* catch block only logs
loadChannelContextsFromFile(contexts, data) ==
    IF data.kind # "array" THEN contexts
    ELSE LoadEntries(data.arr, 1, [k \in {} |-> EmptyContext])

\* gemini.ts:416-420: existingArr, [] when the read or the parse throws
ExistingArr(file) ==
    IF Parses(file) THEN file ELSE [k \in {} |-> StringifyContext(EmptyContext)]

\* MergedArtifact with the overlay the wrong way round: the artifact wins
MergedArtifactPriorWins(existing, contexts) ==
    [k \in DOMAIN existing \cup DOMAIN contexts |->
        IF k \in DOMAIN existing THEN existing[k]
        ELSE StringifyContext(contexts[k])]

\* gemini.ts:422-428: the artifact read earlier, overlaid with the store
MergedArtifact(existing, contexts) ==
    [k \in DOMAIN existing \cup DOMAIN contexts |->
        IF k \in DOMAIN contexts THEN StringifyContext(contexts[k])
        ELSE existing[k]]

(***************************************************************************)
(* Bounds of the model                                                     *)
(***************************************************************************)
MaxHalfDays == 3     \* the clock runs from 0 to MaxHalfDays half days
MaxInFlight == 2     \* addPendingMessage calls in flight at once
MaxSaves == 1        \* saveChannelContextsToFile calls in flight at once
MaxCycles == 2       \* summarization cycles started
MaxStoreMsgs == 2    \* messages delivered in the store specification
MaxPieces == 2       \* pieces of text in an input of sanitizeInput
MaxTextLen == 5      \* characters in an input of segmentText
MaxSegLen == 4       \* the largest maxLength given to segmentText
MaxSignals == 2      \* signal handlers waiting for their save at once

HalfDay == 12 * 60 * 60 * 1000
TimeLimit == MaxHalfDays * HalfDay

Op(name, id) == [op |-> name, channelId |-> id]

\* the process after its startup: running, no signal received
Started == [pc |-> "running", handlers |-> <<>>]

RemoveAt(seq, i) == SubSeq(seq, 1, i - 1) \o SubSeq(seq, i + 1, Len(seq))

(***************************************************************************)
(* The MessageCreate handler (index.ts:181-196) for a message that does    *)
(* not mention the bot: updateChannelContext, whose last statement starts  *)
(* addPendingMessage without awaiting it (gemini.ts:127).                  *)
(*                                                                         *)
(* The gateway delivers the messages in the order of their ids; msgs holds *)
(* the candidates for each id. gap is the time that passes between the     *)
(* clock read of line 56 and the one of line 105.                          *)
(***************************************************************************)
MessageCreate(msgs, gaps, inFlight) ==
    \E message \in msgs, gap \in gaps :
        /\ message.id = lastId + 1
        /\ now + gap <= TimeLimit
        /\ Len(enqueues) < inFlight
        /\ lastId' = message.id
        /\ IF message.bot \/ Skipped(message)
           THEN /\ UNCHANGED <<channelContexts, enqueues>>
                /\ now' = now
                /\ lastOp' = Op("skip", message.channelId)
           ELSE /\ now' = now + gap
                /\ channelContexts' =
                       updateChannelContext(channelContexts, message, now, now + gap)
                /\ enqueues' = Append(enqueues,
                       [pc |-> "read", message |-> message,
                        pending |-> <<>>, data |-> <<>>])
                /\ lastOp' = Op("update", message.channelId)
        /\ UNCHANGED <<proc, contextFile, saves, pendingFile, acked, cycleVars,
                       pureVars>>

\* time passes
Tick ==
    /\ now + HalfDay <= TimeLimit
    /\ now' = now + HalfDay
    /\ lastOp' = Op("step", "")
    /\ UNCHANGED <<proc, storeVars, pendingVars, cycleVars, lastId, pureVars>>

(***************************************************************************)
(* saveChannelContextsToFile (gemini.ts:412-433), one action per           *)
(* suspension point. A save in flight is [pc, existing, data] with two     *)
(* history fields: alone says that no other save has been in flight with   *)
(* it, merged is the store as it was at the latest merge step of this save *)
(* or of a save in flight with it.                                         *)
(***************************************************************************)
\* the 60-second timer or a signal handler calls it (index.ts:127-139), with
\* fewer than n saves in flight
SaveStartUpTo(n) ==
    /\ Len(saves) < n
    /\ saves' = Append([i \in 1..Len(saves) |-> [saves[i] EXCEPT !.alone = FALSE]],
                       [pc |-> "read", existing |-> <<>>, data |-> <<>>,
                        alone |-> saves = <<>>, merged |-> <<>>])
    /\ lastOp' = Op("step", "")
    /\ UNCHANGED <<proc, now, channelContexts, contextFile, pendingVars, cycleVars,
                   lastId, pureVars>>

SaveStart == SaveStartUpTo(MaxSaves)

\* readFile and JSON.parse (lines 418-419)
SaveRead ==
    \E i \in 1..Len(saves) :
        /\ saves[i].pc = "read"
        /\ saves' = [saves EXCEPT ![i].pc = "merge",
                                  ![i].existing = ExistingArr(contextFile)]
        /\ lastOp' = Op("step", "")
        /\ UNCHANGED <<proc, now, channelContexts, contextFile, pendingVars, cycleVars,
                       lastId, pureVars>>

\* the merge with the store and JSON.stringify (lines 422-428)
SaveMerge ==
    \E i \in 1..Len(saves) :
        /\ saves[i].pc = "merge"
        /\ saves' = [j \in 1..Len(saves) |->
                        IF j = i
                        THEN [saves[j] EXCEPT
                                 !.pc = "write",
                                 !.data = MergedArtifact(saves[i].existing,
                                                         channelContexts),
                                 !.merged = channelContexts]
                        ELSE [saves[j] EXCEPT !.merged = channelContexts]]
        /\ lastOp' = Op("step", "")
        /\ UNCHANGED <<proc, now, channelContexts, contextFile, pendingVars, cycleVars,
                       lastId, pureVars>>

\* writeFile lands (line 428)
SaveWrite ==
    \E i \in 1..Len(saves) :
        /\ saves[i].pc = "write"
        /\ contextFile' = saves[i].data
        /\ saves' = RemoveAt(saves, i)
        /\ lastOp' = [op |-> "save", channelId |-> "", alone |-> saves[i].alone]
        /\ UNCHANGED <<proc, now, channelContexts, pendingVars, cycleVars, lastId, pureVars>>

(***************************************************************************)
(* The SIGINT and SIGTERM handlers (index.ts:132-139): each awaits a save   *)
(* of its own and then calls process.exit(). The save resolves and the      *)
(* handler goes on in the same turn of the event loop, so the last step of  *)
(* the save and the exit are one action.                                    *)
(***************************************************************************)
Running == proc.pc = "running"

\* Signal without the await: the handler exits at once
SignalExitsAtOnce ==
    /\ Running
    /\ Len(proc.handlers) < MaxSignals
    /\ proc' = [proc EXCEPT !.pc = "exited"]
    /\ lastOp' = [op |-> "exit", channelId |-> "", saved |-> FALSE]
    /\ UNCHANGED <<now, storeVars, pendingVars, cycleVars, lastId, pureVars>>

\* a signal arrives: its handler calls saveChannelContextsToFile (lines 133,
\* 137)
Signal ==
    /\ Running
    /\ Len(proc.handlers) < MaxSignals
    /\ proc' = [proc EXCEPT !.handlers =
                    Append(@, [pc |-> "read", existing |-> <<>>, data |-> <<>>])]
    /\ lastOp' = Op("signal", "")
    /\ UNCHANGED <<now, storeVars, pendingVars, cycleVars, lastId, pureVars>>

\* readFile and JSON.parse of a handler's save (gemini.ts:418-419)
SignalSaveRead ==
    \E i \in 1..Len(proc.handlers) :
        /\ Running
        /\ proc.handlers[i].pc = "read"
        /\ proc' = [proc EXCEPT !.handlers[i].pc = "merge",
                                !.handlers[i].existing = ExistingArr(contextFile)]
        /\ lastOp' = Op("step", "")
        /\ UNCHANGED <<now, storeVars, pendingVars, cycleVars, lastId, pureVars>>

\* the merge of a handler's save (gemini.ts:422-428)
SignalSaveMerge ==
    \E i \in 1..Len(proc.handlers) :
        /\ Running
        /\ proc.handlers[i].pc = "merge"
        /\ proc' = [proc EXCEPT
               !.handlers[i].pc = "write",
               !.handlers[i].data = MergedArtifact(proc.handlers[i].existing,
                                                   channelContexts)]
        /\ lastOp' = Op("step", "")
        /\ UNCHANGED <<now, storeVars, pendingVars, cycleVars, lastId, pureVars>>

\* writeFile of a handler's save lands (gemini.ts:428), the save resolves
\* and the handler calls process.exit() (index.ts:134, 138)
SignalSaveWrite ==
    \E i \in 1..Len(proc.handlers) :
        /\ Running
        /\ proc.handlers[i].pc = "write"
        /\ contextFile' = proc.handlers[i].data
        /\ proc' = [pc |-> "exited", handlers |-> RemoveAt(proc.handlers, i)]
        /\ lastOp' = [op |-> "exit", channelId |-> "", saved |-> TRUE]
        /\ UNCHANGED <<now, channelContexts, saves, pendingVars, cycleVars,
                       lastId, pureVars>>

\* mkdir or writeFile of a handler's save throws: the catch of gemini.ts:
\* 430-432 logs, the save resolves and the handler calls process.exit()
SignalSaveFails ==
    \E i \in 1..Len(proc.handlers) :
        /\ Running
        /\ proc.handlers[i].pc \in {"read", "write"}
        /\ proc' = [pc |-> "exited", handlers |-> RemoveAt(proc.handlers, i)]
        /\ lastOp' = [op |-> "exit", channelId |-> "", saved |-> FALSE]
        /\ UNCHANGED <<now, storeVars, pendingVars, cycleVars, lastId, pureVars>>

\* The process ends and starts again: what was in flight is gone, the module
\* state is fresh, and loadChannelContextsFromFile runs (index.ts:94-95).
Restart ==
    /\ channelContexts' = LoadedContexts(contextFile)
    /\ saves' = <<>>
    /\ enqueues' = <<>>
    /\ lastOp' = Op("load", "")
    /\ UNCHANGED <<proc, now, contextFile, pendingFile, acked, cycleVars, lastId, pureVars>>

(***************************************************************************)
(* addPendingMessage (gemini.ts:455-473), one action per suspension point  *)
(***************************************************************************)
PendingEntry(message, t) ==
    [channelId |-> message.channelId, author |-> message.displayName,
     content |-> message.content, timestamp |-> StringAt(t)]

\* readFile and JSON.parse (lines 460-461)
EnqueueRead ==
    \E i \in 1..Len(enqueues) :
        /\ enqueues[i].pc = "read"
        /\ enqueues' = [enqueues EXCEPT ![i].pc = "push", ![i].pending = pendingFile]
        /\ lastOp' = Op("step", "")
        /\ UNCHANGED <<proc, now, storeVars, pendingFile, acked, cycleVars, lastId, pureVars>>

\* pending.push and JSON.stringify (lines 463-469)
EnqueuePush ==
    \E i \in 1..Len(enqueues) :
        /\ enqueues[i].pc = "push"
        /\ enqueues' = [enqueues EXCEPT ![i].pc = "write",
               ![i].data = Append(enqueues[i].pending,
                                  PendingEntry(enqueues[i].message, now))]
        /\ lastOp' = Op("step", "")
        /\ UNCHANGED <<proc, now, storeVars, pendingFile, acked, cycleVars, lastId, pureVars>>

\* writeFile lands and the call resolves (line 469)
EnqueueWrite ==
    \E i \in 1..Len(enqueues) :
        /\ enqueues[i].pc = "write"
        /\ pendingFile' = enqueues[i].data
        /\ acked' = acked \cup {enqueues[i].data[Len(enqueues[i].data)]}
        /\ enqueues' = RemoveAt(enqueues, i)
        /\ lastOp' = Op("enqueue", enqueues[i].message.channelId)
        /\ UNCHANGED <<proc, now, storeVars, cycleVars, lastId, pureVars>>

\* readFile or JSON.parse throws (lines 460-461): the inner catch is empty
\* and pending stays []
EnqueueReadFails ==
    \E i \in 1..Len(enqueues) :
        /\ enqueues[i].pc = "read"
        /\ enqueues' = [enqueues EXCEPT ![i].pc = "push", ![i].pending = <<>>]
        /\ lastOp' = Op("step", "")
        /\ UNCHANGED <<proc, now, storeVars, pendingFile, acked, cycleVars, lastId, pureVars>>

\* EnqueueFails with the rejection left unhandled: the process ends and the
\* next run starts from the artifact
EnqueueFailsUnhandled ==
    \E i \in 1..Len(enqueues) :
        /\ enqueues[i].pc \in {"read", "write"}
        /\ channelContexts' = LoadedContexts(contextFile)
        /\ enqueues' = <<>>
        /\ lastOp' = Op("enqueueFailed", enqueues[i].message.channelId)
        /\ UNCHANGED <<proc, now, contextFile, saves, pendingFile, acked, cycleVars,
                       lastId, pureVars>>

\* mkdir (line 457) or writeFile (line 469) throws: the catch of lines
\* 470-472 logs, and the call resolves without having written
EnqueueFails ==
    \E i \in 1..Len(enqueues) :
        /\ enqueues[i].pc \in {"read", "write"}
        /\ enqueues' = RemoveAt(enqueues, i)
        /\ lastOp' = Op("enqueueFailed", enqueues[i].message.channelId)
        /\ UNCHANGED <<proc, now, storeVars, pendingFile, acked, cycleVars, lastId, pureVars>>

(***************************************************************************)
(* The pending-summarization callback (index.ts:142-178) with              *)
(* getAndClearPendingMessages (gemini.ts:476-484), one action per          *)
(* suspension point. A cycle is [pc, data, keys, idx, skipped]: data is    *)
(* what the drain returned, keys are Object.keys(byChannel), idx is the    *)
(* position of the for loop, skipped are the channels that the loop passed *)
(* with continue.                                                          *)
(***************************************************************************)
\* Object.keys(byChannel): the channel ids in the order of their first entry
RECURSIVE GroupKeys(_, _, _)
GroupKeys(data, i, keys) ==
    IF i > Len(data) THEN keys
    ELSE IF \E k \in 1..Len(keys) : keys[k] = data[i].channelId
         THEN GroupKeys(data, i + 1, keys)
         ELSE GroupKeys(data, i + 1, Append(keys, data[i].channelId))

\* byChannel without the grouping: every channel gets the whole drain
ByChannelUngrouped(data, channelId) == data

\* byChannel[channelId] (index.ts:146-150)
ByChannel(data, channelId) ==
    SelectSeq(data, LAMBDA e : e.channelId = channelId)

\* the 5-minute timer fires (index.ts:142)
CycleStart ==
    /\ Len(cycles) < MaxCycles
    /\ cycles' = Append(cycles, [pc |-> "read", data |-> <<>>, keys |-> <<>>,
                                 idx |-> 1, skipped |-> {}])
    /\ lastOp' = Op("step", "")
    /\ UNCHANGED <<proc, now, storeVars, pendingVars, requests, sent, lastId, pureVars>>

\* readFile of getAndClearPendingMessages (gemini.ts:478)
DrainRead ==
    \E i \in 1..Len(cycles) :
        /\ cycles[i].pc = "read"
        /\ cycles' = [cycles EXCEPT ![i].pc = "clear", ![i].data = pendingFile]
        /\ lastOp' = Op("step", "")
        /\ UNCHANGED <<proc, now, storeVars, pendingVars, requests, sent, lastId, pureVars>>

\* writeFile '[]' lands, the drain returns the data read, and the callback
\* groups it by channel (gemini.ts:479-480, index.ts:144-150)
DrainClear ==
    \E i \in 1..Len(cycles) :
        /\ cycles[i].pc = "clear"
        /\ pendingFile' = <<>>
        /\ cycles' = [cycles EXCEPT
               ![i].pc = IF Len(cycles[i].data) = 0 THEN "done" ELSE "loop",
               ![i].keys = GroupKeys(cycles[i].data, 1, <<>>)]
        /\ lastOp' = Op("drain", "")
        /\ UNCHANGED <<proc, now, storeVars, enqueues, acked, requests, sent, lastId,
                       pureVars>>

\* One turn of the for loop up to its await (index.ts:151-168): the loop
\* ends after the last key, skips a channel that is not in the client's
\* cache, and otherwise calls chat() and waits for it.
CycleNext ==
    \E i \in 1..Len(cycles), cached \in BOOLEAN :
        /\ cycles[i].pc = "loop"
        /\ IF cycles[i].idx > Len(cycles[i].keys)
           THEN /\ cycles' = [cycles EXCEPT ![i].pc = "done"]
                /\ UNCHANGED requests
           ELSE IF ~cached
           THEN /\ cycles' = [cycles EXCEPT
                       ![i].idx = @ + 1,
                       ![i].skipped = @ \cup {cycles[i].keys[cycles[i].idx]}]
                /\ UNCHANGED requests
           ELSE /\ cycles' = [cycles EXCEPT ![i].pc = "await"]
                /\ requests' = Append(requests,
                       [cycle |-> i,
                        channelId |-> cycles[i].keys[cycles[i].idx],
                        entries |-> ByChannel(cycles[i].data,
                                              cycles[i].keys[cycles[i].idx]),
                        state |-> "pending"])
        /\ lastOp' = Op("step", "")
        /\ UNCHANGED <<proc, now, storeVars, pendingVars, sent, lastId, pureVars>>

\* the request of cycle i that the loop is waiting for
Awaited(i) ==
    CHOOSE r \in 1..Len(requests) :
        /\ requests[r].cycle = i
        /\ requests[r].channelId = cycles[i].keys[cycles[i].idx]

\* chat() resolves: the try block ends (its statements after the call are
\* comments, index.ts:169-173) and the loop goes on
GenReturn ==
    \E i \in 1..Len(cycles) :
        /\ cycles[i].pc = "await"
        /\ requests' = [requests EXCEPT ![Awaited(i)].state = "returned"]
        /\ cycles' = [cycles EXCEPT ![i].pc = "loop", ![i].idx = @ + 1]
        /\ lastOp' = Op("genReturn", requests[Awaited(i)].channelId)
        /\ UNCHANGED <<proc, now, storeVars, pendingVars, sent, lastId, pureVars>>

\* GenThrow without the try/catch: the rejection ends the callback
GenThrowEscapes ==
    \E i \in 1..Len(cycles) :
        /\ cycles[i].pc = "await"
        /\ requests' = [requests EXCEPT ![Awaited(i)].state = "failed"]
        /\ cycles' = [cycles EXCEPT ![i].pc = "done"]
        /\ lastOp' = Op("genThrow", requests[Awaited(i)].channelId)
        /\ UNCHANGED <<proc, now, storeVars, pendingVars, sent, lastId, pureVars>>

\* chat() rejects: the catch block logs and the loop goes on (index.ts:174-176)
GenThrow ==
    \E i \in 1..Len(cycles) :
        /\ cycles[i].pc = "await"
        /\ requests' = [requests EXCEPT ![Awaited(i)].state = "failed"]
        /\ cycles' = [cycles EXCEPT ![i].pc = "loop", ![i].idx = @ + 1]
        /\ lastOp' = Op("genThrow", requests[Awaited(i)].channelId)
        /\ UNCHANGED <<proc, now, storeVars, pendingVars, sent, lastId, pureVars>>

\* the generation service never answers this request: the await never ends
GenHang ==
    \E i \in 1..Len(cycles) :
        /\ cycles[i].pc = "await"
        /\ requests' = [requests EXCEPT ![Awaited(i)].state = "hung"]
        /\ cycles' = [cycles EXCEPT ![i].pc = "hung"]
        /\ lastOp' = Op("genHang", requests[Awaited(i)].channelId)
        /\ UNCHANGED <<proc, now, storeVars, pendingVars, sent, lastId, pureVars>>

(***************************************************************************)
(* The prompt of chat() (gemini.ts:314-409). A display name is a string of  *)
(* the model; NameText gives its characters.                               *)
(***************************************************************************)
\* BOT_NAME (gemini.ts:168), the default
BotName == "p-gpt"

NameText(name) ==
    CASE name = "alice" -> <<"a","l","i","c","e">>
      [] name = "bob" -> <<"b","o","b">>
      [] name = "mods" -> <<"m","o","d","s">>
      [] name = BotName -> <<"p","-","g","p","t">>
      [] OTHER -> <<>>

\* slice(-n)
LastN(seq, n) ==
    IF Len(seq) <= n THEN seq ELSE SubSeq(seq, Len(seq) - n + 1, Len(seq))

\* slice(0, n)
FirstN(seq, n) == IF Len(seq) <= n THEN seq ELSE SubSeq(seq, 1, n)

\* SortTopics with an entry put before the entries of its count
RECURSIVE SortTopicsNewestFirst(_, _)
SortTopicsNewestFirst(topics, n) ==
    IF n = 0 THEN <<>>
    ELSE LET sorted == SortTopicsNewestFirst(topics, n - 1)
             x == topics[n]
             k == Cardinality({i \in 1..Len(sorted) : sorted[i][2] > x[2]})
         IN  SubSeq(sorted, 1, k) \o <<x>> \o SubSeq(sorted, k + 1, Len(sorted))

\* sort((a, b) => b[1] - a[1]) of the topic entries: by count, descending,
\* entries of equal count in their order of insertion (the sort is stable)
RECURSIVE SortTopics(_, _)
SortTopics(topics, n) ==
    IF n = 0 THEN <<>>
    ELSE LET sorted == SortTopics(topics, n - 1)
             x == topics[n]
             k == Cardinality({i \in 1..Len(sorted) : sorted[i][2] >= x[2]})
         IN  SubSeq(sorted, 1, k) \o <<x>> \o SubSeq(sorted, k + 1, Len(sorted))

\* getChannelContextSummary (gemini.ts:135-166): the parts of the text it
\* returns; present is FALSE for the empty text
getChannelContextSummary(contexts, channelId) ==
    IF ~Has(contexts, channelId)
    THEN [present |-> FALSE, activeUsers |-> {}, topTopics |-> <<>>,
          interactions |-> EmptyMap, recent |-> <<>>]
    ELSE LET context == contexts[channelId]
         IN  [present |-> TRUE,
              activeUsers |-> context.activeUsers,
              topTopics |-> FirstN(SortTopics(context.topics, Len(context.topics)), 5),
              interactions |-> context.userInteractions,
              recent |-> LastN(context.recentMessages, 5)]

\* getUsersContext (gemini.ts:200-273): the members of the guild, each with
\* display name (nickname ?? username), username and role names, and the
\* author of the message when the members do not hold that display name
getUsersContext(message, members) ==
    IF \E u \in members : u.display = message.displayName
    THEN members
    ELSE members \cup {[display |-> message.displayName,
                        username |-> message.displayName, roles |-> {}]}

\* formatWithPersonality (gemini.ts:314-387): the parts that the template
\* puts into the prompt
formatWithPersonality(contexts, message, content, members) ==
    [userContext |-> getUsersContext(message, members),
     currentUser |-> message.displayName,
     sanitizedContent |-> sanitizeInput(content),
     channelContext |-> getChannelContextSummary(contexts, message.channelId),
     recentContext |->
         IF Has(contexts, message.channelId)
         THEN LastN(contexts[message.channelId].recentMessages, 20)
         ELSE <<>>]

\* chat() asks for the summary of a channel (gemini.ts:326, through
\* formatWithPersonality)
Summarize(channels) ==
    \E channelId \in channels :
        /\ arg' = channelId
        /\ ret' = getChannelContextSummary(channelContexts, channelId)
        /\ lastOp' = Op("summary", channelId)
        /\ UNCHANGED <<proc, now, storeVars, pendingVars, cycleVars, lastId>>

(***************************************************************************)
(* The mention path of the MessageCreate handler (index.ts:198-211 and     *)
(* 370-377): a message that mentions the bot, carries no attachment and no *)
(* command, gets a generation request through chat().                      *)
(***************************************************************************)
\* `<@${client.user.id}>` for the client id 1
sMention == <<"<","@","1",">">>

\* message.mentions.has(client.user.id)
MentionsBot(message) ==
    \E i \in 1..Len(message.mentions) : message.mentions[i] = BotName

\* String.prototype.replace with a string pattern: the first occurrence
ReplaceFirst(s, lit) ==
    IF \E i \in 1..Len(s) : i + Len(lit) - 1 <= Len(s)
                            /\ SubSeq(s, i, i + Len(lit) - 1) = lit
    THEN LET i == CHOOSE i \in 1..Len(s) :
                     /\ i + Len(lit) - 1 <= Len(s)
                     /\ SubSeq(s, i, i + Len(lit) - 1) = lit
                     /\ \A j \in 1..(i - 1) : SubSeq(s, j, j + Len(lit) - 1) # lit
         IN  SubSeq(s, 1, i - 1) \o SubSeq(s, i + Len(lit), Len(s))
    ELSE s

\* String.prototype.trim
RECURSIVE trim(_)
trim(s) ==
    IF s = <<>> THEN s
    ELSE IF IsSpace(Head(s)) THEN trim(Tail(s))
    ELSE IF IsSpace(s[Len(s)]) THEN trim(SubSeq(s, 1, Len(s) - 1))
    ELSE s

\* contentWithoutMention (index.ts:203-206)
contentWithoutMention(message) ==
    toLowerCase(trim(ReplaceFirst(message.content, sMention)))

\* the reply request of a message: cycle 0 marks it as not issued by a cycle
ReplyRequests(message) ==
    {r \in 1..Len(requests) : requests[r].cycle = 0 /\ requests[r].message = message}

\* The handler of a delivered message reaches chat() (index.ts:377), which
\* builds the prompt and sends it (gemini.ts:389-401). msgs holds one message
\* for each id.
MentionRequest(msgs, memberLists) ==
    \E message \in msgs, members \in memberLists :
        /\ message.id <= lastId
        /\ ~message.bot
        /\ MentionsBot(message)
        /\ ReplyRequests(message) = {}
        /\ requests' = Append(requests,
               [cycle |-> 0, channelId |-> message.channelId, message |-> message,
                entries |-> <<>>, state |-> "pending",
                prompt |-> formatWithPersonality(channelContexts, message,
                               contentWithoutMention(message), members)])
        /\ lastOp' = Op("reply", message.channelId)
        /\ UNCHANGED <<proc, now, storeVars, pendingVars, cycles, sent, lastId, pureVars>>

(***************************************************************************)
(* segmentText (index.ts:421-448)                                          *)
(***************************************************************************)
IsTerminator(c) == c \in {".", "!", "?"}

\* the first index from i on whose character is (term) or is not (~term) a
\* terminator, Len(text) + 1 when there is none
RECURSIVE Scan(_, _, _)
Scan(text, i, term) ==
    IF i > Len(text) \/ IsTerminator(text[i]) = term THEN i
    ELSE Scan(text, i + 1, term)

\* text.match(/[^.!?]+[.!?]+/g): from i on, the next match starts at the first
\* character that is no terminator, takes the run of such characters and the
\* run of terminators after it; without a terminator after it nothing matches
RECURSIVE Sentences(_, _)
Sentences(text, i) ==
    LET a == Scan(text, i, FALSE)
        b == Scan(text, a, TRUE)
        c == Scan(text, b, FALSE)
    IN  IF b > Len(text) THEN <<>>
        ELSE <<SubSeq(text, a, c - 1)>> \o Sentences(text, c)

\* the for loop and the final push (index.ts:433-445)
RECURSIVE Pack(_, _, _, _, _)
Pack(sentences, k, segments, currentSegment, maxLength) ==
    IF k > Len(sentences)
    THEN IF currentSegment # <<>> THEN Append(segments, currentSegment) ELSE segments
    ELSE IF Len(currentSegment) + Len(sentences[k]) > maxLength
    THEN Pack(sentences, k + 1, Append(segments, currentSegment), sentences[k],
              maxLength)
    ELSE Pack(sentences, k + 1, segments, currentSegment \o sentences[k], maxLength)

\* fixed-size slices, as splitToGeminiParts makes them
RECURSIVE segmentTextSliced(_, _)
segmentTextSliced(text, maxLength) ==
    IF Len(text) <= maxLength THEN <<text>>
    ELSE <<SubSeq(text, 1, maxLength)>>
         \o segmentTextSliced(SubSeq(text, maxLength + 1, Len(text)), maxLength)

segmentText(text, maxLength) ==
    IF Len(text) <= maxLength THEN <<text>>
    ELSE LET matched == Sentences(text, 1)
             sentences == IF matched = <<>> THEN <<text>> ELSE matched
         IN  Pack(sentences, 1, <<>>, <<>>, maxLength)

ApplySegment ==
    /\ lastOp.op = "init"
    /\ ret' = segmentText(arg.text, arg.maxLength)
    /\ lastOp' = Op("segmentText", "")
    /\ UNCHANGED <<proc, now, storeVars, pendingVars, cycleVars, lastId, arg>>

(***************************************************************************)
(* loadChannelContextsFromFile applied to what the startup finds           *)
(* (index.ts:95)                                                           *)
(***************************************************************************)
ApplyLoad ==
    /\ lastOp.op = "init"
    /\ channelContexts' = loadChannelContextsFromFile(channelContexts, arg)
    /\ lastOp' = Op("load", "")
    /\ UNCHANGED <<proc, now, contextFile, saves, pendingVars, cycleVars, lastId, pureVars>>

(***************************************************************************)
(* sanitizeInput applied to an input                                       *)
(***************************************************************************)
ApplySanitize ==
    /\ lastOp.op = "init"
    /\ ret' = sanitizeInput(arg)
    /\ lastOp' = Op("sanitizeInput", "")
    /\ UNCHANGED <<proc, now, storeVars, pendingVars, cycleVars, lastId, arg>>

(***************************************************************************)
(* Inputs                                                                  *)
(***************************************************************************)
sHello == <<"H","e","l","l","o"," ","#","t">>
sYouAre == <<"Y","o","u"," ","a","r","e">>
sPlain == <<"o","k">>

Message(id, channelId, name, content, mentions) ==
    [id |-> id, bot |-> FALSE, guild |-> TRUE, channelId |-> channelId,
     displayName |-> name, content |-> content, mentions |-> mentions]

\* the messages of the store specification: for each id, one of these
StoreMsgs ==
    UNION { { Message(id, "c1", "alice", sHello, <<"bob">>),
              Message(id, "c1", "bob", sYouAre, <<>>),
              Message(id, "c2", "alice", sPlain, <<>>) } : id \in 1..MaxStoreMsgs }

\* the messages of the queue specification: three messages in two channels
QueueMsgs ==
    { Message(1, "c1", "alice", <<"m","1">>, <<>>),
      Message(2, "c2", "bob", <<"m","2">>, <<>>),
      Message(3, "c1", "bob", <<"m","3">>, <<>>) }

\* the messages of the mention specification: a message with a markup tag,
\* then two that mention the bot
sSystemTag == <<"<","s","y","s","t","e","m",">">>

MentionMsgs ==
    { Message(1, "c1", "alice", sSystemTag, <<>>),
      Message(2, "c1", "bob", sMention \o <<" ","H","i">>, <<BotName>>),
      Message(3, "c2", "alice", <<"o","k"," ">> \o sMention, <<BotName, "bob">>) }

\* guild.members.cache: empty, or one member with a role
MemberLists ==
    { {}, {[display |-> "alice", username |-> "alice", roles |-> {"mods"}]} }

\* the inputs of sanitizeInput: up to MaxPieces of these, concatenated
Pieces ==
    { <<"y","o","u"," ","a","r","e">>,
      <<"<","s","y","s","t","e","m",">">>,
      <<"S","y","s","t","e","m",":"," ">>,
      <<"a","c","t"," ","a","s">>,
      <<"c","h","a","n","g","e"," ","y","o","u","r"," ","a","t","t","i","t","u","d","e">>,
      <<"s","t","o","p"," ","b","e","i","n","g"," ","c","h","e","e","r","f","u","l">>,
      <<"d","o","n","'","t"," ","b","e"," "," ","F","r","i","e","n","d","l","y">>,
      <<"x">>,
      <<" ">> }

RECURSIVE Concat(_)
Concat(parts) == IF parts = <<>> THEN <<>> ELSE Head(parts) \o Concat(Tail(parts))

SanitizeInputs ==
    { Concat(parts) : parts \in UNION { [1..n -> Pieces] : n \in 0..MaxPieces } }

(***************************************************************************)
(* Specifications                                                          *)
(***************************************************************************)
\* new Map() (gemini.ts:26) and the '[]' that ensureStorageFiles writes
\* (gemini.ts:487-506)
EmptyStore == [k \in {} |-> EmptyContext]
EmptyArtifact == [k \in {} |-> StringifyContext(EmptyContext)]

InitStore == channelContexts = EmptyStore /\ contextFile = EmptyArtifact /\ saves = <<>>
InitQueue == pendingFile = <<>> /\ enqueues = <<>> /\ acked = {}
InitCycles == cycles = <<>> /\ requests = <<>> /\ sent = {}

Init ==
    /\ now = 0
    /\ proc = Started
    /\ lastId = 0
    /\ lastOp = Op("init", "")
    /\ InitStore
    /\ InitQueue
    /\ InitCycles
    /\ arg = <<>>
    /\ ret = <<>>

\* The pending queue and the summarization cycle
Next ==
    \/ MessageCreate(QueueMsgs, {0}, MaxInFlight)
    \/ EnqueueRead
    \/ EnqueuePush
    \/ EnqueueWrite
    \/ CycleStart
    \/ DrainRead
    \/ DrainClear
    \/ CycleNext
    \/ GenReturn
    \/ GenThrow
    \/ GenHang

Spec == Init /\ [][Next]_vars

\* The context store with its artifact. The addPendingMessage calls that the
\* updates start stay in flight here: the queue is the subject of Spec, and
\* the store does not read it.
StoreNext ==
    \/ MessageCreate(StoreMsgs, {0, Day}, MaxStoreMsgs + 1)
    \/ Tick
    \/ SaveStart
    \/ SaveRead
    \/ SaveMerge
    \/ SaveWrite
    \/ Restart

SpecStore == Init /\ [][StoreNext]_vars

\* sanitizeInput on its own
SanitizeInit ==
    /\ now = 0
    /\ proc = Started
    /\ lastId = 0
    /\ lastOp = Op("init", "")
    /\ InitStore
    /\ InitQueue
    /\ InitCycles
    /\ arg \in SanitizeInputs
    /\ ret = <<>>

SpecSanitize == SanitizeInit /\ [][ApplySanitize]_vars

\* The topic counts: three messages in one channel, each one of three
\* contents, with the clock moving
sTopicTag == <<"#","T","o","p","i","c"," ","h","e","l","l","o">>
sTwice == <<"h","e","l","l","o"," ","#","t"," ","H","e","l","l","o">>
sNoTopic == <<"@","a","l","i","c","e"," ","h","t","t","p","s",":","x">>

TopicMsgs ==
    UNION { { Message(id, "c1", "alice", content, <<>>) :
                content \in {sTopicTag, sTwice, sNoTopic} } : id \in 1..3 }

TopicNext ==
    \/ MessageCreate(TopicMsgs, {0}, 4)
    \/ Tick

SpecTopics == Init /\ [][TopicNext]_vars

\* The channel summary: six messages in the channel c1, each one of three
\* contents that bring up to seven topics with counts that tie and differ;
\* the summary is asked for c1 and for c2, which never has a context.
sSix ==
    <<"a","l","p","h","a"," ","b","r","a","v","o"," ","c","a","n","d","y"," ",
      "d","e","l","t","a"," ","e","a","g","l","e"," ","f","o","x","e","s">>
sLate == <<"g","a","m","m","a"," ","g","a","m","m","a"," ","f","o","x","e","s">>
sMid == <<"c","a","n","d","y"," ","e","a","g","l","e">>

SummaryMsgs ==
    UNION { { Message(id, "c1", "alice", content, <<>>) :
                content \in {sSix, sLate, sMid} } : id \in 1..6 }

SummaryNext ==
    \/ MessageCreate(SummaryMsgs, {0}, 7)
    \/ Summarize({"c1", "c2"})

SpecSummary == Init /\ [][SummaryNext]_vars

\* segmentText on its own: every text of up to MaxTextLen of these characters
\* with every maxLength up to MaxSegLen
SegmentChars == {"a", " ", ".", "!"}

SegmentInputs ==
    UNION { [1..n -> SegmentChars] : n \in 0..MaxTextLen }

SegmentInit ==
    /\ now = 0
    /\ proc = Started
    /\ lastId = 0
    /\ lastOp = Op("init", "")
    /\ InitStore
    /\ InitQueue
    /\ InitCycles
    /\ arg \in [text : SegmentInputs, maxLength : 1..MaxSegLen]
    /\ ret = <<>>

SpecSegment == SegmentInit /\ [][ApplySegment]_vars

\* The eviction at the cap: RecentCap + 2 messages in one channel, one
\* millisecond apart, after a start with an empty store or with a store
\* loaded from an artifact that an earlier run saved.
CapAuthor(n) == IF n % 2 = 1 THEN "alice" ELSE "bob"

CapMsgs ==
    { Message(id, "c1", CapAuthor(id), sPlain, <<>>) : id \in 1..(RecentCap + 2) }

\* the store after the first n of these messages, all at time 0
StoreAfter(n) ==
    IF n = 0 THEN EmptyStore
    ELSE [k \in {"c1"} |->
            [recentMessages |->
                 [i \in 1..n |-> [timestamp |-> DateAt(0), author |-> CapAuthor(i),
                                  content |-> sanitizeInput(sPlain),
                                  mentions |-> <<>>]],
             activeUsers |-> {CapAuthor(i) : i \in 1..n},
             topics |-> <<>>,
             userInteractions |-> [u \in {CapAuthor(i) : i \in 1..n} |-> {}]]]

CapInit ==
    /\ now = 0
    /\ proc = Started
    /\ lastId = 0
    /\ lastOp = Op("load", "")
    /\ \E n \in {0, 1, RecentCap} :
          /\ contextFile = MergedArtifact(EmptyArtifact, StoreAfter(n))
          /\ channelContexts = LoadedContexts(contextFile)
    /\ saves = <<>>
    /\ InitQueue
    /\ InitCycles
    /\ arg = <<>>
    /\ ret = <<>>

CapNext == MessageCreate(CapMsgs, {1}, RecentCap + 3)

SpecCap == CapInit /\ [][CapNext]_vars

\* The summarization cycle under the scheduling of the event loop: a
\* continuation that is ready runs, and the generation service answers every
\* request that it does not leave hanging.
LiveMsgs ==
    { Message(1, "c1", "alice", <<"m","1">>, <<>>),
      Message(2, "c2", "bob", <<"m","2">>, <<>>) }

LiveNext ==
    \/ MessageCreate(LiveMsgs, {0}, 1)
    \/ EnqueueRead
    \/ EnqueuePush
    \/ EnqueueWrite
    \/ CycleStart
    \/ DrainRead
    \/ DrainClear
    \/ CycleNext
    \/ GenReturn
    \/ GenThrow
    \/ GenHang

\* Saves that overlap each other and the updates, in a run that starts with
\* the artifact of an earlier run: none yet, one that JSON.parse rejects, or
\* one with the channels c1 and c3. The store starts as the load left it:
\* restored from the artifact, or empty when the load threw at its first
\* entry (gemini.ts:449-451).
PriorStore ==
    updateChannelContext(
        updateChannelContext(EmptyStore, Message(1, "c3", "bob", sPlain, <<>>), 0, 0),
        Message(2, "c1", "bob", sYouAre, <<>>), 0, 0)

SaveArtifacts ==
    { EmptyArtifact, UnparsableArtifact, MergedArtifact(EmptyArtifact, PriorStore) }

SaveMsgs ==
    { Message(1, "c1", "alice", sPlain, <<>>),
      Message(2, "c2", "bob", sPlain, <<>>) }

SaveInit ==
    /\ now = 0
    /\ proc = Started
    /\ lastId = 0
    /\ lastOp = Op("load", "")
    /\ contextFile \in SaveArtifacts
    /\ channelContexts \in {LoadedContexts(contextFile), EmptyStore}
    /\ saves = <<>>
    /\ InitQueue
    /\ InitCycles
    /\ arg = <<>>
    /\ ret = <<>>

SaveNext ==
    \/ MessageCreate(SaveMsgs, {0}, 3)
    \/ SaveStartUpTo(MaxSaves + 1)
    \/ SaveRead
    \/ SaveMerge
    \/ SaveWrite

SpecSave == SaveInit /\ [][SaveNext]_vars

\* The load at startup: the store is the new Map of line 26, and the artifact
\* is missing, unparsable, or an array of up to three entries, each a saved
\* context or a value without topics.
WrongShape == [recentMessages |-> <<>>, activeUsers |-> JsonArray(<<>>)]

LoadEntryValues ==
    { <<"c1", StringifyContext(PriorStore["c1"])>>,
      <<"c3", StringifyContext(PriorStore["c3"])>>,
      <<"c1", WrongShape>>,
      <<"c2", WrongShape>> }

LoadInputs ==
    {MissingFile, UnparsableFile}
        \cup { ArrayFile(arr) : arr \in UNION { [1..n -> LoadEntryValues] : n \in 0..3 } }

LoadInit ==
    /\ now = 0
    /\ proc = Started
    /\ lastId = 0
    /\ lastOp = Op("init", "")
    /\ InitStore
    /\ InitQueue
    /\ InitCycles
    /\ arg \in LoadInputs
    /\ ret = <<>>

SpecLoad == LoadInit /\ [][ApplyLoad]_vars

\* Messages that updateChannelContext skips, next to the pending queue: for
\* each of three ids a guild message, a direct message (no guild) or a
\* message whose channel has no id.
SkipMsgs ==
    UNION { { Message(id, "c1", "alice", sPlain, <<>>),
              [Message(id, "d1", "bob", sHello, <<"alice">>) EXCEPT !.guild = FALSE],
              Message(id, "", "bob", sHello, <<"alice">>) } : id \in 1..3 }

SkipNext ==
    \/ MessageCreate(SkipMsgs, {0}, MaxInFlight)
    \/ EnqueueRead
    \/ EnqueuePush
    \/ EnqueueWrite

SpecSkip == Init /\ [][SkipNext]_vars

\* The pending queue on a disk that fails
FailNext ==
    \/ MessageCreate(QueueMsgs, {0}, MaxInFlight)
    \/ EnqueueRead
    \/ EnqueueReadFails
    \/ EnqueuePush
    \/ EnqueueWrite
    \/ EnqueueFails

SpecFail == Init /\ [][FailNext]_vars

\* Termination signals next to the updates and the saves of the timer. A
\* process that has exited takes no step. The file system answers every
\* call of a handler's save, with a result or with an error.
SignalNext ==
    \/ Running /\ MessageCreate(SaveMsgs, {0}, 3)
    \/ Running /\ SaveStart
    \/ Running /\ SaveRead
    \/ Running /\ SaveMerge
    \/ Running /\ SaveWrite
    \/ Signal
    \/ SignalSaveRead
    \/ SignalSaveMerge
    \/ SignalSaveWrite
    \/ SignalSaveFails

SpecSignal ==
    /\ Init
    /\ [][SignalNext]_vars
    /\ WF_vars(SignalSaveRead) /\ WF_vars(SignalSaveMerge)
    /\ WF_vars(SignalSaveWrite \/ SignalSaveFails)

\* The mention path next to the pending queue
MentionNext ==
    \/ MessageCreate(MentionMsgs, {0}, MaxInFlight)
    \/ EnqueueRead
    \/ EnqueuePush
    \/ EnqueueWrite
    \/ MentionRequest(MentionMsgs, MemberLists)

SpecMention == Init /\ [][MentionNext]_vars

\* The summarization cycles of a run that finds a pending artifact left by
\* the run before it: empty, one entry, or the entries of three messages of
\* two channels.
QueueEntry(id) ==
    PendingEntry(CHOOSE m \in QueueMsgs : m.id = id, 0)

CycleQueues ==
    { <<>>, <<QueueEntry(1)>>, <<QueueEntry(1), QueueEntry(2), QueueEntry(3)>> }

CycleInit ==
    /\ now = 0
    /\ proc = Started
    /\ lastId = 0
    /\ lastOp = Op("init", "")
    /\ InitStore
    /\ pendingFile \in CycleQueues
    /\ enqueues = <<>>
    /\ acked = {}
    /\ InitCycles
    /\ arg = <<>>
    /\ ret = <<>>

CycleOnlyNext ==
    \/ CycleStart
    \/ DrainRead
    \/ DrainClear
    \/ CycleNext
    \/ GenReturn
    \/ GenThrow
    \/ GenHang

SpecCycle == CycleInit /\ [][CycleOnlyNext]_vars

SpecLive ==
    /\ Init
    /\ [][LiveNext]_vars
    /\ WF_vars(EnqueueRead) /\ WF_vars(EnqueuePush) /\ WF_vars(EnqueueWrite)
    /\ WF_vars(DrainRead) /\ WF_vars(DrainClear) /\ WF_vars(CycleNext)
    /\ WF_vars(GenReturn \/ GenThrow)

(***************************************************************************)
(* Properties                                                              *)
(***************************************************************************)
Range(seq) == {seq[i] : i \in 1..Len(seq)}

RecentOf(contexts, c) ==
    IF Has(contexts, c) THEN contexts[c].recentMessages ELSE <<>>

\* the instant a retained entry must be later than, at the update just made
Horizon(t) == t - Day

\* C1: immediately after any update of a channel its recentMessages holds at
\* most RecentCap entries, and when the push exceeded the cap it is the oldest
\* entry that went: what precedes the new entry is the rest of the old
\* sequence, in order (less what the 24-hour filter removed).
C1_CappedOldestDropped ==
    [][ lastOp'.op = "update" =>
          LET c == lastOp'.channelId
              old == RecentOf(channelContexts, c)
              new == RecentOf(channelContexts', c)
          IN  /\ Len(new) <= RecentCap
              /\ Len(old) = RecentCap =>
                    /\ Len(new) >= 1
                    /\ SubSeq(new, 1, Len(new) - 1) =
                         SelectSeq(Tail(old), LAMBDA m :
                             LaterThan(m.timestamp, Horizon(now'))) ]_vars

\* C1 witness: an update has left the channel with RecentCap entries, the
\* entry of time 0 no longer among them.
C1_Witness ==
    /\ lastOp.op = "update"
    /\ Len(RecentOf(channelContexts, "c1")) = RecentCap
    /\ RecentOf(channelContexts, "c1")[1].timestamp.ms > 0

SameEntries(a, b) ==
    /\ Len(a) = Len(b)
    /\ \A i \in 1..Len(a) :
          /\ a[i].timestamp.ms = b[i].timestamp.ms
          /\ a[i].author = b[i].author
          /\ a[i].content = b[i].content
          /\ a[i].mentions = b[i].mentions

SameContext(a, b) ==
    /\ SameEntries(a.recentMessages, b.recentMessages)
    /\ a.activeUsers = b.activeUsers
    /\ Range(a.topics) = Range(b.topics)
    /\ DOMAIN a.userInteractions = DOMAIN b.userInteractions
    /\ \A u \in DOMAIN a.userInteractions :
          a.userInteractions[u] = b.userInteractions[u]

\* the artifact holds a save of the store as it is now
SavedNow ==
    \A k \in DOMAIN channelContexts :
        Has(contextFile, k) /\ contextFile[k] = StringifyContext(channelContexts[k])

\* C2: a load that follows a save of the store, with no update in between,
\* gives every channel that had a message the same recentMessages,
\* activeUsers, topics and userInteractions; and in the artifact activeUsers
\* is an array, topics an object and userInteractions an object of arrays.
C2_SaveLoadRoundTrip ==
    [][ (lastOp'.op = "load" /\ SavedNow) =>
          \A k \in DOMAIN channelContexts :
              Len(channelContexts[k].recentMessages) > 0 =>
                  /\ Has(channelContexts', k)
                  /\ SameContext(channelContexts'[k], channelContexts[k])
                  /\ contextFile[k].activeUsers.isArray
                  /\ ~contextFile[k].topics.isArray
                  /\ ~contextFile[k].userInteractions.isArray
                  /\ \A i \in 1..Len(contextFile[k].userInteractions.props) :
                        contextFile[k].userInteractions.props[i][2].isArray ]_vars

\* C3: an update removes from recentMessages only the entry pushed beyond the
\* cap (the oldest) and the entries older than 24 hours: every other entry,
\* loaded ones included, is still there after the update.
C3_OnlyCapOrAgeRemoves ==
    [][ lastOp'.op = "update" =>
          LET c == lastOp'.channelId
              old == RecentOf(channelContexts, c)
              new == RecentOf(channelContexts', c)
          IN  \A j \in 1..Len(old) :
                  (/\ j > 1 \/ Len(old) < RecentCap
                   /\ old[j].timestamp.ms > Horizon(now'))
                  => \E k \in 1..Len(new) : new[k] = old[j] ]_vars

\* C7: immediately after an update, a channel whose recentMessages is empty
\* has empty activeUsers, topics and userInteractions.
C7_EmptyMeansReset ==
    lastOp.op = "update" =>
        \A c \in DOMAIN channelContexts :
            Len(channelContexts[c].recentMessages) = 0 =>
                /\ channelContexts[c].activeUsers = {}
                /\ channelContexts[c].topics = <<>>
                /\ DOMAIN channelContexts[c].userInteractions = {}

\* C7 witness: an update has left the channel it was for without any
\* retained message.
C7_Witness ==
    /\ lastOp.op = "update"
    /\ Has(channelContexts, lastOp.channelId)
    /\ Len(channelContexts[lastOp.channelId].recentMessages) = 0

\* C8: in every state activeUsers is the set of the authors of the entries
\* of recentMessages.
C8_ActiveUsersAreRetainedAuthors ==
    \A c \in DOMAIN channelContexts :
        channelContexts[c].activeUsers =
            {m.author : m \in Range(channelContexts[c].recentMessages)}

\* C4: with no drain started and no enqueue in flight, every entry whose
\* addPendingMessage call has resolved is in the pending artifact (so two
\* enqueues that overlapped are both there).
C4_ResolvedEnqueuesAreQueued ==
    (cycles = <<>> /\ enqueues = <<>>) => acked \subseteq Range(pendingFile)

\* C5: the first drain of a run, reading while no enqueue is in flight,
\* returns every entry whose addPendingMessage call has resolved (no drain
\* came before it, so none of them met a drain's read-to-clear window).
C5_DrainReturnsAllEnqueued ==
    [][ (Len(cycles) = 1 /\ cycles[1].pc = "read" /\ cycles'[1].pc = "clear"
         /\ enqueues = <<>>)
        => acked \subseteq Range(cycles'[1].data) ]_vars

\* C9: when the generation call of one channel never returns, the loop of
\* that cycle still gets to every other channel of the cycle.
C9_HungCallDoesNotBlock ==
    \A i \in 1..MaxCycles :
        [](i <= Len(cycles) /\ cycles[i].pc = "hung"
             => <>(i <= Len(cycles) /\ cycles[i].idx >= Len(cycles[i].keys)))

\* C10: when a cycle has ended, every generation result it received has been
\* sent to the channel it is for.
C10_ResultsDelivered ==
    \A i \in 1..Len(cycles) :
        cycles[i].pc = "done" =>
            \A r \in 1..Len(requests) :
                (requests[r].cycle = i /\ requests[r].state = "returned")
                => \E m \in sent : m.channelId = requests[r].channelId /\ m.cycle = i

\* C6: the output of sanitizeInput matches none of its five patterns.
C6_OutputMatchesNoPattern ==
    lastOp.op = "sanitizeInput" =>
        \A p \in 1..Len(Patterns) : ~Matches(ret, Patterns[p])

\* the position of a channel in the keys of cycle i
KeyIndex(i, channelId) ==
    CHOOSE p \in 1..Len(cycles[i].keys) : cycles[i].keys[p] = channelId

\* the requests that cycle i issued for a channel
RequestsOf(i, channelId) ==
    {r \in 1..Len(requests) :
        requests[r].cycle = i /\ requests[r].channelId = channelId}

\* the loop of cycle i has dealt with the key at position p
Passed(i, p) ==
    \/ p < cycles[i].idx
    \/ p = cycles[i].idx /\ cycles[i].pc \in {"await", "hung"}

\* C11: a generation call that throws is caught for its channel only: the
\* cycle stays in its loop, goes on past that channel, and ends only when
\* every channel of the drain has had its request or was skipped.
C11_ThrowIsCaughtPerChannel ==
    \A r \in 1..Len(requests) :
        requests[r].state = "failed" =>
            LET i == requests[r].cycle
            IN  /\ cycles[i].pc \in {"loop", "await", "hung", "done"}
                /\ cycles[i].idx > KeyIndex(i, requests[r].channelId)
                /\ cycles[i].pc = "done" =>
                       \A p \in 1..Len(cycles[i].keys) :
                           \/ cycles[i].keys[p] \in cycles[i].skipped
                           \/ RequestsOf(i, cycles[i].keys[p]) # {}

\* C11 witness: a cycle has ended in which the call for the first channel
\* threw and the call for a later channel returned.
C11_Witness ==
    \E i \in 1..Len(cycles) :
        /\ cycles[i].pc = "done"
        /\ Len(cycles[i].keys) >= 2
        /\ \E r \in RequestsOf(i, cycles[i].keys[1]) : requests[r].state = "failed"
        /\ \E r \in RequestsOf(i, cycles[i].keys[2]) : requests[r].state = "returned"

\* C12 as stated: a cycle that has ended issued exactly one request for each
\* channel of its drain (none when the drain was empty), holding that
\* channel's entries in queue order.
C12_OneRequestPerChannel ==
    \A i \in 1..Len(cycles) :
        /\ \A r \in 1..Len(requests) :
               requests[r].cycle = i =>
                   requests[r].entries =
                       SelectSeq(cycles[i].data,
                                 LAMBDA e : e.channelId = requests[r].channelId)
        /\ cycles[i].pc = "done" =>
               \A p \in 1..Len(cycles[i].keys) :
                   Cardinality(RequestsOf(i, cycles[i].keys[p])) = 1

\* C12 amended: a cycle issues requests only for channels of its drain (none
\* when the drain was empty); once its loop has dealt with a channel it has
\* issued exactly one request for it, unless the channel was not in the
\* client's cache and was skipped, and none before; every request holds
\* exactly that channel's drained entries in queue order.
C12_OneRequestPerCachedChannel ==
    \A i \in 1..Len(cycles) :
        /\ \A r \in 1..Len(requests) :
               requests[r].cycle = i =>
                   /\ \E p \in 1..Len(cycles[i].keys) :
                          cycles[i].keys[p] = requests[r].channelId
                   /\ requests[r].entries =
                          SelectSeq(cycles[i].data,
                                    LAMBDA e : e.channelId = requests[r].channelId)
        /\ \A p \in 1..Len(cycles[i].keys) :
               Cardinality(RequestsOf(i, cycles[i].keys[p])) =
                   IF Passed(i, p) /\ cycles[i].keys[p] \notin cycles[i].skipped
                   THEN 1 ELSE 0

\* C12 witness: a cycle has ended after a drain of two channels, one skipped
\* and one with a request of two entries.
C12_Witness ==
    \E i \in 1..Len(cycles) :
        /\ cycles[i].pc = "done"
        /\ cycles[i].skipped # {}
        /\ \E r \in 1..Len(requests) :
               requests[r].cycle = i /\ Len(requests[r].entries) = 2

\* C13: when the generation request of a guild message is issued, the
\* update of the Context Store for that message has been applied and the
\* write of its pending entry has landed in the pending artifact.
C13_StoredAndQueuedBeforeRequest ==
    [][ \A r \in 1..Len(requests') :
          (r > Len(requests) /\ requests'[r].cycle = 0 /\ requests'[r].message.guild)
          => LET m == requests'[r].message
             IN  /\ Has(channelContexts, m.channelId)
                 /\ \E e \in Range(channelContexts[m.channelId].recentMessages) :
                        e.author = m.displayName /\ e.content = sanitizeInput(m.content)
                 /\ \E e \in acked :
                        /\ e.channelId = m.channelId
                        /\ e.author = m.displayName
                        /\ e.content = m.content ]_vars

\* the user-controlled texts that a prompt holds, each with the text it was
\* taken from: the content, the names of the member list, the current user,
\* the names, topic tokens and interaction names of the channel summary, and
\* the authors of the recent-context lines
PromptTexts(request) ==
    LET prompt == request.prompt
        Name(n) == [source |-> NameText(n), text |-> NameText(n)]
    IN  {[source |-> contentWithoutMention(request.message),
          text |-> prompt.sanitizedContent]}
        \cup {Name(u.display) : u \in prompt.userContext}
        \cup {Name(u.username) : u \in prompt.userContext}
        \cup UNION {{Name(role) : role \in u.roles} : u \in prompt.userContext}
        \cup {Name(prompt.currentUser)}
        \cup {Name(u) : u \in prompt.channelContext.activeUsers}
        \cup {[source |-> t[1], text |-> t[1]] : t \in Range(prompt.channelContext.topTopics)}
        \cup {Name(u) : u \in DOMAIN prompt.channelContext.interactions}
        \cup UNION {{Name(v) : v \in prompt.channelContext.interactions[u]} :
                        u \in DOMAIN prompt.channelContext.interactions}
        \cup {Name(m.author) : m \in Range(prompt.channelContext.recent)}
        \cup {Name(m.author) : m \in Range(prompt.recentContext)}

\* C17: every user-controlled text in a prompt sent by chat() is the result
\* of sanitizeInput applied to the text it was taken from.
C17_PromptTextsAreSanitized ==
    \A r \in 1..Len(requests) :
        requests[r].cycle = 0 =>
            \A p \in PromptTexts(requests[r]) : p.text = sanitizeInput(p.source)

\* C16: every entry of every channel's recentMessages, stored by an update
\* or restored by a load, has as content sanitizeInput of the raw content of
\* the message it was made from (the message of that channel and author).
C16_StoredContentIsSanitized ==
    \A c \in DOMAIN channelContexts :
        \A e \in Range(channelContexts[c].recentMessages) :
            \E m \in StoreMsgs :
                /\ m.channelId = c
                /\ m.displayName = e.author
                /\ e.content = sanitizeInput(m.content)

\* C16 witness: the store holds an entry of the message "You are", whose
\* content is the placeholder and not the raw text.
C16_Witness ==
    /\ Has(channelContexts, "c1")
    /\ \E e \in Range(channelContexts["c1"].recentMessages) :
           e.author = "bob" /\ e.content = RequestRemoved /\ e.content # sYouAre

\* C14: the write of a save that no other save overlapped leaves in the
\* artifact exactly the keys of the artifact before it (none when that one
\* does not parse) and of the store as the save merged it: a key of the store
\* with its context, a key of the artifact alone with its value.
C14_SaveWritesUnion ==
    [][ \A i \in 1..Len(saves) :
          (saves[i].pc = "write" /\ saves[i].alone /\ lastOp'.op = "save"
           /\ saves' = RemoveAt(saves, i))
          => LET prior == ExistingArr(contextFile)
                 store == saves[i].merged
             IN  /\ DOMAIN contextFile' = DOMAIN prior \cup DOMAIN store
                 /\ \A k \in DOMAIN store :
                        contextFile'[k] = StringifyContext(store[k])
                 /\ \A k \in DOMAIN prior \ DOMAIN store :
                        contextFile'[k] = prior[k] ]_vars

\* C14 witness: a save on its own has written an artifact that holds c3 from
\* the artifact alone, c2 from the store alone, and for c1 the context of the
\* store where the artifact had another one.
C14_Witness ==
    /\ lastOp.op = "save"
    /\ lastOp.alone
    /\ DOMAIN contextFile = {"c1", "c2", "c3"}
    /\ DOMAIN channelContexts = {"c1", "c2"}
    /\ contextFile["c1"] = StringifyContext(channelContexts["c1"])
    /\ contextFile["c1"] # MergedArtifact(EmptyArtifact, PriorStore)["c1"]

\* C15: when the last of several overlapping saves has written, and the
\* store has not changed since the latest of their merge steps, the artifact
\* holds for every channel of the store its current context.
C15_OverlappingSavesEndCurrent ==
    [][ (Len(saves) = 1 /\ saves[1].pc = "write" /\ ~saves[1].alone
         /\ saves' = <<>> /\ saves[1].merged = channelContexts)
        => \A k \in DOMAIN channelContexts :
               /\ k \in DOMAIN contextFile'
               /\ contextFile'[k] = StringifyContext(channelContexts[k]) ]_vars

\* C18: the segments of segmentText, concatenated in order, are the text.
C18_SegmentsConcatToText ==
    lastOp.op = "segmentText" => Concat(ret) = arg.text

\* a run of characters that are no terminators, followed by terminators
IsSentence(seg) ==
    \E k \in 1..(Len(seg) - 1) :
        /\ \A j \in 1..k : ~IsTerminator(seg[j])
        /\ \A j \in (k + 1)..Len(seg) : IsTerminator(seg[j])

\* the segment starts where a sentence starts and ends where one ends
WholeSentences(seg) ==
    seg = <<>> \/ (~IsTerminator(seg[1]) /\ IsTerminator(seg[Len(seg)]))

\* the text holds no sentence: no character that is no terminator is
\* followed by a terminator
NoSentence(text) ==
    ~\E i \in 1..(Len(text) - 1) : ~IsTerminator(text[i]) /\ IsTerminator(text[i + 1])

Occurrences(token, content) ==
    LET words == split(toLowerCase(content))
    IN  Cardinality({i \in 1..Len(words) : words[i] = token})

\* a hashtag, or a word longer than 4 characters that starts with neither
\* '@' nor 'http'
IsTopicToken(w) ==
    \/ startsWith(w, <<"#">>)
    \/ Len(w) > 4 /\ ~startsWith(w, <<"@">>) /\ ~startsWith(w, <<"h","t","t","p">>)

\* C20: an update adds to the count of every topic token the number of its
\* occurrences in the lowercased raw content of the message (so the count is
\* the number of occurrences since the last reset), counts no other word,
\* and lowers no count.
C20_TopicCountsAreOccurrences ==
    [][ lastOp'.op = "update" =>
          LET c == lastOp'.channelId
              old == IF Has(channelContexts, c) THEN channelContexts[c].topics
                     ELSE <<>>
              new == channelContexts'[c].topics
          IN  \A m \in TopicMsgs :
                  (m.id = lastId'
                   /\ sanitizeInput(m.content) =
                        channelContexts'[c].recentMessages[
                            Len(channelContexts'[c].recentMessages)].content)
                  => \A w \in Range(split(toLowerCase(m.content)))
                              \cup {old[i][1] : i \in 1..Len(old)} :
                         TopicCount(new, w) =
                             TopicCount(old, w) +
                                 (IF IsTopicToken(w) THEN Occurrences(w, m.content)
                                  ELSE 0) ]_vars

\* C21: after an update that did not reset the context, userInteractions of
\* the channel has the author of the message as a key, whose set holds every
\* display name the message mentions, and every key the map had before is
\* still there with a set that lost no name.
C21_InteractionsGrow ==
    [][ (lastOp'.op = "update"
         /\ Len(RecentOf(channelContexts', lastOp'.channelId)) > 0) =>
          LET c == lastOp'.channelId
              old == IF Has(channelContexts, c)
                     THEN channelContexts[c].userInteractions ELSE EmptyMap
              new == channelContexts'[c].userInteractions
              recent == channelContexts'[c].recentMessages
              entry == recent[Len(recent)]
          IN  /\ Has(new, entry.author)
              /\ Range(entry.mentions) \subseteq new[entry.author]
              /\ \A u \in DOMAIN old : Has(new, u) /\ old[u] \subseteq new[u] ]_vars

\* C21 witness: after two updates of a channel, the first author still has
\* the name they mentioned and the second author has a key of their own.
C21_Witness ==
    /\ lastOp.op = "update"
    /\ Has(channelContexts, "c1")
    /\ Len(channelContexts["c1"].recentMessages) = 2
    /\ channelContexts["c1"].recentMessages[2].author = "bob"
    /\ DOMAIN channelContexts["c1"].userInteractions = {"alice", "bob"}
    /\ "bob" \in channelContexts["c1"].userInteractions["alice"]

\* the position of an entry in the topics Map (its order of insertion)
InsertedAt(topics, entry) ==
    CHOOSE i \in 1..Len(topics) : topics[i] = entry

\* entry a comes before entry b in the listing: a higher count, or the same
\* count and inserted first
RanksBefore(topics, a, b) ==
    \/ a[2] > b[2]
    \/ a[2] = b[2] /\ InsertedAt(topics, a) < InsertedAt(topics, b)

\* C22: the summary of a channel without context is the empty text; the
\* summary of any other channel lists min(5, number of topics) topics, each
\* listed topic ranks before the one listed after it and before every topic
\* left out (higher count first, equal counts in order of insertion), and its
\* recent context is the last min(5, length) entries of recentMessages in
\* their order.
C22_SummaryTopFiveLastFive ==
    lastOp.op = "summary" =>
        IF ~Has(channelContexts, arg) THEN ~ret.present
        ELSE LET topics == channelContexts[arg].topics
                 recent == channelContexts[arg].recentMessages
                 top == ret.topTopics
                 shown == IF Len(recent) < 5 THEN Len(recent) ELSE 5
             IN  /\ ret.present
                 /\ Len(top) = IF Len(topics) < 5 THEN Len(topics) ELSE 5
                 /\ Range(top) \subseteq Range(topics)
                 /\ \A i \in 1..Len(top) : \A j \in (i + 1)..Len(top) :
                        RanksBefore(topics, top[i], top[j])
                 /\ \A t \in Range(topics) \ Range(top) :
                        \A i \in 1..Len(top) : RanksBefore(topics, top[i], t)
                 /\ Len(ret.recent) = shown
                 /\ \A i \in 1..shown :
                        ret.recent[i] = recent[Len(recent) - shown + i]

\* C22 witness: a summary of a channel with seven topics and six messages,
\* in which a topic inserted last is listed first and topics of equal count
\* are listed.
C22_Witness ==
    /\ lastOp.op = "summary"
    /\ Has(channelContexts, arg)
    /\ Len(channelContexts[arg].topics) = 7
    /\ Len(channelContexts[arg].recentMessages) = 6
    /\ ret.topTopics[1] = channelContexts[arg].topics[7]
    /\ \E i \in 1..4 : ret.topTopics[i][2] = ret.topTopics[i + 1][2]

\* the load fails: the file is missing or unparsable, or an entry throws
LoadFails(data) ==
    \/ data.kind # "array"
    \/ \E i \in 1..Len(data.arr) : EntryThrows(data.arr[i][2])

\* C23: after a load that failed, the store holds no channel context (none
\* is taken from the artifact).
C23_FailedLoadLeavesNoState ==
    (lastOp.op = "load" /\ LoadFails(arg)) => DOMAIN channelContexts = {}

\* C24: the delivery of a message without a guild or without a channel id
\* leaves the Context Store as it was (no context created or changed), starts
\* no addPendingMessage call and leaves the pending artifact as it was.
C24_SkippedMessageChangesNothing ==
    [][ \A m \in SkipMsgs :
          (lastId = m.id - 1 /\ lastId' = m.id /\ lastOp'.channelId = m.channelId
           /\ (~m.guild \/ m.channelId = ""))
          => /\ channelContexts' = channelContexts
             /\ enqueues' = enqueues
             /\ pendingFile' = pendingFile ]_vars

\* C24 witness: a direct message and a message without channel id have been
\* delivered after a guild message, the last delivery was one of them, and
\* the store holds the guild channel only.
C24_Witness ==
    /\ lastId = 3
    /\ lastOp.op = "skip"
    /\ lastOp.channelId = ""
    /\ DOMAIN channelContexts = {"c1"}
    /\ Len(channelContexts["c1"].recentMessages) = 1
    /\ Len(enqueues) + Len(pendingFile) = 1

\* the store holds the entry that the update made for the message
Stored(contexts, message) ==
    /\ Has(contexts, message.channelId)
    /\ \E e \in Range(contexts[message.channelId].recentMessages) :
           /\ e.author = message.displayName
           /\ e.content = sanitizeInput(message.content)
           /\ e.mentions = message.mentions

\* C25: when an addPendingMessage call fails, the Context Store is left as
\* it was and still holds the entry of the update made for that message, and
\* the calls in flight for other messages stay in flight (nothing is thrown
\* to the handler).
C25_EnqueueFailureKeepsStore ==
    [][ lastOp'.op = "enqueueFailed" =>
          /\ channelContexts' = channelContexts
          /\ \E i \in 1..Len(enqueues) :
                 /\ enqueues' = RemoveAt(enqueues, i)
                 /\ Stored(channelContexts', enqueues[i].message) ]_vars

\* C25 witness: the call for the first message failed, its entry is in the
\* store, and the process went on to update the store for the second
\* message, whose call is in flight.
C25_Witness ==
    /\ lastOp.op = "update"
    /\ lastId = 2
    /\ Len(enqueues) = 1
    /\ enqueues[1].message.id = 2
    /\ pendingFile = <<>>
    /\ acked = {}
    /\ \A m \in QueueMsgs : m.id <= 2 => Stored(channelContexts, m)

\* C26: the process exits only in the step in which a save started by a
\* signal handler finishes, with its write landed or with a failure that
\* left the artifact as it was; and once a signal has been received the
\* process does exit, whether the save succeeds or fails.
C26_ExitAfterHandlerSave ==
    /\ [][ (proc.pc = "running" /\ proc'.pc = "exited") =>
             \E i \in 1..Len(proc.handlers) :
                 /\ proc'.handlers = RemoveAt(proc.handlers, i)
                 /\ \/ proc.handlers[i].pc = "write"
                       /\ contextFile' = proc.handlers[i].data
                    \/ contextFile' = contextFile /\ ~lastOp'.saved ]_vars
    /\ (proc.handlers # <<>>) ~> (proc.pc = "exited")

\* C26 witness: the process has exited after the save of a signal handler
\* wrote a store of two channels to the artifact.
C26_Witness ==
    /\ proc.pc = "exited"
    /\ lastOp.op = "exit"
    /\ lastOp.saved
    /\ DOMAIN channelContexts = {"c1", "c2"}
    /\ contextFile = MergedArtifact(EmptyArtifact, channelContexts)

\* C27: immediately after an update of a channel, no entry of its
\* recentMessages has a timestamp more than 24 hours before the time of the
\* update (the clock read of line 105).
C27_NoEntryOlderThanDay ==
    lastOp.op = "update" =>
        \A e \in Range(RecentOf(channelContexts, lastOp.channelId)) :
            e.timestamp.ms >= now - Day

\* C27 witness: an update has removed an entry, and the entries left are
\* the ones of the last 24 hours.
C27_Witness ==
    /\ lastOp.op = "update"
    /\ lastId = 2
    /\ now > Day
    /\ Len(RecentOf(channelContexts, lastOp.channelId)) = 1
    /\ RecentOf(channelContexts, lastOp.channelId)[1].timestamp.ms > 0
    /\ lastOp.channelId \in DOMAIN contextFile
    /\ Len(contextFile[lastOp.channelId].recentMessages) = 1
    /\ contextFile[lastOp.channelId].recentMessages[1].timestamp.ms = 0

\* C28: after any update that is not skipped the channel's recentMessages is
\* not empty and its last entry is the entry of the message just processed
\* (so the reset has not run); and a step that is neither an update nor a
\* load leaves every channel's context as it was.
C28_UpdateKeepsItsMessage ==
    [][ /\ lastOp'.op = "update" =>
             LET recent == RecentOf(channelContexts', lastOp'.channelId)
             IN  /\ Len(recent) > 0
                 /\ \E m \in StoreMsgs :
                        /\ m.id = lastId'
                        /\ m.channelId = lastOp'.channelId
                        /\ recent[Len(recent)].author = m.displayName
                        /\ recent[Len(recent)].content = sanitizeInput(m.content)
                        /\ recent[Len(recent)].mentions = m.mentions
        /\ lastOp'.op \notin {"update", "load"} =>
             channelContexts' = channelContexts ]_vars

\* the entries that the drain of cycle i has returned
Returned(i) ==
    IF cycles[i].pc \in {"read", "clear"} THEN {} ELSE Range(cycles[i].data)

\* C29: an entry that a drain has returned is not in the pending artifact
\* afterwards, and no entry is returned by two drains.
C29_NoEntryReturnedTwice ==
    \A i \in 1..Len(cycles) :
        /\ Returned(i) \cap Range(pendingFile) = {}
        /\ \A j \in 1..Len(cycles) : i # j => Returned(i) \cap Returned(j) = {}

\* C30: for a text that is not empty, no segment that segmentText returns
\* is the empty string.
C30_NoEmptySegment ==
    (lastOp.op = "segmentText" /\ arg.text # <<>>) =>
        \A i \in 1..Len(ret) : ret[i] # <<>>

\* C31: an update for a channel leaves the context of every other channel
\* of the store as it was, and neither an update nor any step of a save
\* removes a channel key from the store.
C31_UpdateTouchesOneChannel ==
    [][ /\ lastOp'.op = "update" =>
             /\ Has(channelContexts', lastOp'.channelId)
             /\ \A k \in DOMAIN channelContexts :
                    k # lastOp'.channelId =>
                        /\ Has(channelContexts', k)
                        /\ channelContexts'[k] = channelContexts[k]
        /\ (lastOp'.op # "load" /\ (lastOp'.op = "update" \/ saves' # saves)) =>
             DOMAIN channelContexts \subseteq DOMAIN channelContexts' ]_vars

\* C31 witness: an update for c2 has been made in a store that holds c1
\* with a message, after a save has written c1 to the artifact.
C31_Witness ==
    /\ lastOp.op = "update"
    /\ lastOp.channelId = "c2"
    /\ DOMAIN channelContexts = {"c1", "c2"}
    /\ Len(channelContexts["c1"].recentMessages) = 1
    /\ channelContexts["c1"].activeUsers = {"alice"}
    /\ DOMAIN contextFile = {"c1"}

====
